---- MODULE Spec2Model ----
(***************************************************************************)
(* Script Content Model of the outreach platform backend:                  *)
(*   - Script entity (backend/src/models/Script.js): construction          *)
(*     defaults, validate, extractVariables, replaceVariables,             *)
(*     updateMetrics, createVersion;                                       *)
(*   - ScriptService (backend/src/services/ScriptService.js): the          *)
(*     lifecycle operations against the Firestore 'scripts' collection;    *)
(*   - the script routes that call them.                                   *)
(*                                                                         *)
(* Text is modelled as a sequence of chunks.  A chunk is the character     *)
(* "{", the character "}", or a non-empty run of characters holding no     *)
(* brace.  The regular expression of the variable engine only tells "}"    *)
(* from every other character, so scanning chunks is scanning characters.  *)
(* Flat(s) is the text itself, the chunks concatenated.                    *)
(***************************************************************************)
EXTENDS Integers, Sequences, FiniteSets, TLC

VARIABLES
  store,     \* the 'scripts' collection: document id -> document, or NoDoc
  nextId,    \* the next document id collection.add() hands out
  now,       \* the clock read by new Date() and serverTimestamp()
  pending,   \* service calls that have read and have not yet written
  entity,    \* a Script object held in memory by a caller (the model tests)
  last       \* the outcome of the latest call

vars == <<store, nextId, now, pending, entity, last>>

----------------------------------------------------------------------------
(* Sequences and text *)

Min(S) == CHOOSE x \in S : \A y \in S : x <= y

Range(f) == {f[i] : i \in DOMAIN f}

RECURSIVE Flat(_)
Flat(s) == IF s = <<>> THEN "" ELSE Head(s) \o Flat(Tail(s))

RECURSIVE Concat(_)
Concat(ss) == IF ss = <<>> THEN <<>> ELSE Head(ss) \o Concat(Tail(ss))

RECURSIVE Join(_, _)
Join(ss, sep) ==
  IF ss = <<>> THEN <<>>
  ELSE IF Len(ss) = 1 THEN Head(ss)
  ELSE Head(ss) \o sep \o Join(Tail(ss), sep)

RECURSIVE Unique(_)
Unique(s) ==
  IF s = <<>> THEN <<>>
  ELSE LET r == Unique(SubSeq(s, 1, Len(s) - 1))
           x == s[Len(s)]
       IN  IF x \in Range(r) THEN r ELSE Append(r, x)

----------------------------------------------------------------------------
(* JSON values: the shapes script content is made of *)

Str(s)       == [t |-> "str",  k |-> <<>>, v |-> s]
Arr(a)       == [t |-> "arr",  k |-> <<>>, v |-> a]
Obj(ks, vs)  == [t |-> "obj",  k |-> ks,   v |-> vs]
Num(n)       == [t |-> "num",  k |-> <<>>, v |-> <<n>>]
Null         == [t |-> "null", k |-> <<>>, v |-> <<>>]

Digits == <<"1", "2", "3", "4", "5", "6", "7", "8", "9">>

NumText(n) == IF n = 0 THEN "0" ELSE Digits[n]

\* JSON.stringify escapes the quote, the backslash and the line end inside
\* a string.
EscapeChunk(c) ==
  IF c = "\"" THEN <<"\\", "\"">>
  ELSE IF c = "\\" THEN <<"\\", "\\">>
  ELSE IF c = "\n" THEN <<"\\", "n">>
  ELSE <<c>>

EscapeText(s) == Concat([i \in 1..Len(s) |-> EscapeChunk(s[i])])

RECURSIVE stringify(_)
stringify(x) ==
  CASE x.t = "str"  -> <<"\"">> \o EscapeText(x.v) \o <<"\"">>
    [] x.t = "num"  -> <<NumText(x.v[1])>>
    [] x.t = "null" -> <<"null">>
    [] x.t = "arr"  ->
         <<"[">> \o Join([i \in 1..Len(x.v) |-> stringify(x.v[i])], <<",">>) \o <<"]">>
    [] x.t = "obj"  ->
         <<"{">>
         \o Join([i \in 1..Len(x.v) |->
                    <<"\"", x.k[i], "\"", ":">> \o stringify(x.v[i])], <<",">>)
         \o <<"}">>

----------------------------------------------------------------------------
(* The variable pattern /\{([^}]+)\}/g *)

Closes(s) == {j \in 1..Len(s) : s[j] = "}"}

\* The pattern matches at p: a "{", then one character or more that is not
\* "}", then a "}".
MatchAt(s, p) ==
  /\ s[p] = "{"
  /\ p + 1 <= Len(s)
  /\ s[p + 1] # "}"
  /\ \E j \in Closes(s) : j > p + 1

MatchEnd(s, p) == Min({j \in Closes(s) : j > p + 1})

\* The matches of the global pattern, left to right, each search starting
\* where the match before it ended.
RECURSIVE RegexMatches(_, _)
RegexMatches(s, from) ==
  LET starts == {p \in from..Len(s) : MatchAt(s, p)}
  IN  IF starts = {} THEN <<>>
      ELSE LET p == Min(starts)
               e == MatchEnd(s, p)
           IN  <<[start |-> p, end |-> e]>> \o RegexMatches(s, e + 1)

\* match[1]: the text between the braces.
Group1(s, m) == Flat(SubSeq(s, m.start + 1, m.end - 1))

----------------------------------------------------------------------------
(* Script: the entity (models/Script.js) *)

\* JavaScript null and the empty string are both falsy and the code treats
\* an id the same way in both cases; the model writes both as NoId.
NoId == ""

\* performance_metrics.last_used = null
NoTime == 0

Has(d, f) == f \in DOMAIN d

\* { ...a, ...b }
Spread(a, b) ==
  [f \in (DOMAIN a) \cup (DOMAIN b) |-> IF f \in DOMAIN b THEN b[f] ELSE a[f]]

\* delete d[f]
Without(d, f) == [g \in (DOMAIN d) \ {f} |-> d[g]]

\* data.f || dflt, by the type of the value: a string is falsy when empty,
\* a number when 0; an object, an array or a Date is always truthy.
OrText(d, f, dflt)   == IF Has(d, f) /\ d[f] # ""   THEN d[f] ELSE dflt
OrChars(d, f, dflt)  == IF Has(d, f) /\ d[f] # <<>> THEN d[f] ELSE dflt
OrNumber(d, f, dflt) == IF Has(d, f) /\ d[f] # 0    THEN d[f] ELSE dflt
OrObject(d, f, dflt) == IF Has(d, f) THEN d[f] ELSE dflt

EmptyContent ==
  Obj(<<"opening", "main_points", "objection_handling", "closing",
        "fallback_responses">>,
      <<Str(<<>>), Arr(<<>>), Obj(<<>>, <<>>), Str(<<>>), Arr(<<>>)>>)

DefaultSettings == "default_settings"

BaselineMetrics ==
  [total_uses |-> 0, success_rate |-> 0, average_duration |-> 0,
   conversion_rate |-> 0, last_used |-> NoTime]

\* new Script(data), with new Date() = t
NewScript(data, t) ==
  [id                  |-> OrText(data, "id", NoId),
   name                |-> OrChars(data, "name", <<>>),
   description         |-> OrChars(data, "description", <<>>),
   type                |-> OrText(data, "type", "call"),
   industry            |-> OrText(data, "industry", ""),
   language            |-> OrText(data, "language", "en"),
   tone                |-> OrText(data, "tone", "professional"),
   objective           |-> OrText(data, "objective", ""),
   content             |-> OrObject(data, "content", EmptyContent),
   variables           |-> OrObject(data, "variables", <<>>),
   settings            |-> OrText(data, "settings", DefaultSettings),
   performance_metrics |-> OrObject(data, "performance_metrics", BaselineMetrics),
   tags                |-> OrObject(data, "tags", <<>>),
   status              |-> OrText(data, "status", "draft"),
   created_by          |-> OrText(data, "created_by", ""),
   created_at          |-> OrNumber(data, "created_at", t),
   updated_at          |-> OrNumber(data, "updated_at", t),
   version             |-> OrNumber(data, "version", 1),
   parent_script_id    |-> OrText(data, "parent_script_id", NoId)]

\* obj[key] of a JSON object; Null stands for undefined
Prop(x, key) ==
  IF x.t = "obj" /\ \E i \in 1..Len(x.k) : x.k[i] = key
  THEN x.v[Min({i \in 1..Len(x.k) : x.k[i] = key})]
  ELSE Null

\* !x
Falsy(x) ==
  \/ x.t = "null"
  \/ x.t = "str" /\ x.v = <<>>
  \/ x.t = "num" /\ x.v[1] = 0

\* x.length === 0 (an object or a number has no length)
LengthIsZero(x) == x.t \in {"str", "arr"} /\ x.v = <<>>

Whitespace == {" ", "\t", "\n"}

RECURSIVE TrimStart(_)
TrimStart(s) ==
  IF s # <<>> /\ Head(s) \in Whitespace THEN TrimStart(Tail(s)) ELSE s

RECURSIVE TrimEnd(_)
TrimEnd(s) ==
  IF s # <<>> /\ s[Len(s)] \in Whitespace
  THEN TrimEnd(SubSeq(s, 1, Len(s) - 1)) ELSE s

Trim(s) == TrimEnd(TrimStart(s))

MaxNameLength == 100

ScriptTypes    == {"call", "sms", "email"}
ScriptTones    == {"professional", "casual", "friendly", "assertive"}
ScriptStatuses == {"draft", "active", "archived"}

NameRequired   == "Script name is required"
NameTooLong    == "Script name must be less than 100 characters"
BadType        == "Script type must be call, sms, or email"
BadTone        == "Invalid tone specified"
BadStatus      == "Invalid status specified"
OpeningNeeded  == "Opening script is required for call scripts"
PointsNeeded   == "Main points are required for SMS scripts"

Push(c, e) == IF c THEN <<e>> ELSE <<>>

\* validate() asking for an opening and for main points whatever the type
validateContentAnyType(s) ==
  LET errors ==
           Push(s.name = <<>> \/ Len(Trim(s.name)) = 0, NameRequired)
        \o Push(s.name # <<>> /\ Len(s.name) > MaxNameLength, NameTooLong)
        \o Push(s.type \notin ScriptTypes, BadType)
        \o Push(s.tone \notin ScriptTones, BadTone)
        \o Push(s.status \notin ScriptStatuses, BadStatus)
        \o Push(Falsy(Prop(s.content, "opening")), OpeningNeeded)
        \o Push(\/ Falsy(Prop(s.content, "main_points"))
                \/ LengthIsZero(Prop(s.content, "main_points")),
                PointsNeeded)
  IN  [isValid |-> errors = <<>>, errors |-> errors]

\* validate() returning at the first rule that fails
validateFirstOnly(s) ==
  LET errors ==
        IF s.name = <<>> \/ Len(Trim(s.name)) = 0 THEN <<NameRequired>>
        ELSE IF Len(s.name) > MaxNameLength THEN <<NameTooLong>>
        ELSE IF s.type \notin ScriptTypes THEN <<BadType>>
        ELSE IF s.tone \notin ScriptTones THEN <<BadTone>>
        ELSE IF s.status \notin ScriptStatuses THEN <<BadStatus>>
        ELSE IF s.type = "call" /\ Falsy(Prop(s.content, "opening"))
        THEN <<OpeningNeeded>>
        ELSE IF s.type = "sms"
                /\ (\/ Falsy(Prop(s.content, "main_points"))
                    \/ LengthIsZero(Prop(s.content, "main_points")))
        THEN <<PointsNeeded>>
        ELSE <<>>
  IN  [isValid |-> errors = <<>>, errors |-> errors]

\* Script.validate(): the errors, in the order they are pushed
validate(s) ==
  LET errors ==
           Push(s.name = <<>> \/ Len(Trim(s.name)) = 0, NameRequired)
        \o Push(s.name # <<>> /\ Len(s.name) > MaxNameLength, NameTooLong)
        \o Push(s.type \notin ScriptTypes, BadType)
        \o Push(s.tone \notin ScriptTones, BadTone)
        \o Push(s.status \notin ScriptStatuses, BadStatus)
        \o Push(s.type = "call" /\ Falsy(Prop(s.content, "opening")), OpeningNeeded)
        \o Push(s.type = "sms"
                 /\ (\/ Falsy(Prop(s.content, "main_points"))
                     \/ LengthIsZero(Prop(s.content, "main_points"))),
                PointsNeeded)
  IN  [isValid |-> errors = <<>>, errors |-> errors]

\* Script.toFirestore()
toFirestore(s) == Without(s, "id")

\* Script.fromFirestore(doc), with new Date() = t.  Stored times are
\* Timestamps, so toDate() gives them back.
fromFirestore(docId, data, t) ==
  NewScript(
    Spread(Spread([id |-> docId], data),
           [created_at |-> OrNumber(data, "created_at", t),
            updated_at |-> OrNumber(data, "updated_at", t),
            performance_metrics |->
              Spread(IF Has(data, "performance_metrics")
                     THEN data.performance_metrics ELSE <<>>,
                     [last_used |->
                        IF Has(data, "performance_metrics")
                           /\ Has(data.performance_metrics, "last_used")
                        THEN data.performance_metrics.last_used ELSE NoTime])]),
    t)

\* Script.extractVariables(): the names of the matches in the stringified
\* content, each once, in the order of first occurrence (a Set keeps
\* insertion order).
extractVariables(s) ==
  LET text == stringify(s.content)
      ms   == RegexMatches(text, 1)
  IN  Unique([i \in 1..Len(ms) |-> Group1(text, ms[i])])

\* String(v) of a value of the value map
ToText(v) ==
  CASE v.t = "str"  -> v.v
    [] v.t = "num"  -> <<NumText(v.v[1])>>
    [] v.t = "null" -> <<"null">>

\* replaceInString: every match gives way to variableValues[variable] || match
RECURSIVE replaceFrom(_, _, _)
replaceFrom(str, values, from) ==
  LET starts == {p \in from..Len(str) : MatchAt(str, p)}
  IN  IF starts = {} THEN SubSeq(str, from, Len(str))
      ELSE LET p    == Min(starts)
               e    == MatchEnd(str, p)
               name == Flat(SubSeq(str, p + 1, e - 1))
               repl == IF name \in DOMAIN values /\ ~Falsy(values[name])
                       THEN ToText(values[name])
                       ELSE SubSeq(str, p, e)
           IN  SubSeq(str, from, p - 1) \o repl \o replaceFrom(str, values, e + 1)

replaceInString(str, values) == replaceFrom(str, values, 1)

RECURSIVE replaceInObject(_, _)
replaceInObject(x, values) ==
  CASE x.t = "arr" -> Arr([i \in 1..Len(x.v) |-> replaceInObject(x.v[i], values)])
    [] x.t = "obj" ->
         Obj(x.k, [i \in 1..Len(x.v) |-> replaceInObject(x.v[i], values)])
    [] x.t = "str" -> Str(replaceInString(x.v, values))
    [] OTHER -> x

\* Script.replaceVariables(variableValues): { ...this, content: ... }
replaceVariables(s, values) ==
  Spread(s, [content |-> replaceInObject(s.content, values)])

\* replaceVariables assigning the substituted content to this.content
replaceVariablesInPlace(s, values) ==
  Spread(s, [content |-> replaceInObject(s.content, values)])

\* The script replaceVariables was called on, after the call: the method
\* builds its result with a spread and fresh arrays and objects, and assigns
\* nothing to this.
replaceVariablesThis(s, values) == s

\* Script.updateMetrics(metrics), with new Date() = t
updateMetrics(s, metrics, t) ==
  Spread(s, [performance_metrics |->
               Spread(Spread(s.performance_metrics, metrics), [last_used |-> t]),
             updated_at |-> t])

\* createVersion that copies the version number of the source
createVersionSameNumber(s, t) ==
  NewScript(
    Spread(s, [id |-> NoId,
               parent_script_id |-> s.id,
               created_at |-> t,
               updated_at |-> t,
               performance_metrics |-> BaselineMetrics]),
    t)

\* Script.createVersion(), with new Date() = t
createVersion(s, t) ==
  NewScript(
    Spread(s, [id |-> NoId,
               version |-> s.version + 1,
               parent_script_id |-> s.id,
               created_at |-> t,
               updated_at |-> t,
               performance_metrics |-> BaselineMetrics]),
    t)

----------------------------------------------------------------------------
(* Firestore: the 'scripts' collection (the calls of ScriptService.js) *)

DocIds == <<"d1", "d2", "d3", "d4", "d5", "d6">>

\* doc(id).get().exists
Exists(st, id) == id \in DOMAIN st

\* collection.add(data) under the id the collection hands out
AddDoc(st, id, data) ==
  [i \in (DOMAIN st) \cup {id} |-> IF i = id THEN data ELSE st[i]]

\* doc(id).update(fields): the named top-level fields are replaced, the
\* others kept.  The caller checks Exists first: update() of a missing
\* document is rejected by Firestore.
UpdateDoc(st, id, fields) ==
  [i \in DOMAIN st |-> IF i = id THEN Spread(st[i], fields) ELSE st[i]]

\* a delete that keeps the document and marks it archived
ArchiveDoc(st, id) ==
  IF Exists(st, id) THEN UpdateDoc(st, id, [status |-> "archived"]) ELSE st

\* doc(id).delete(): succeeds whether or not the document is there
DeleteDoc(st, id) == [i \in (DOMAIN st) \ {id} |-> st[i]]

----------------------------------------------------------------------------
(* ScriptService *)

NotFound         == "Script not found"
AccessDenied     == "Access denied"
ValidationFailed == "Validation failed"
UndefinedValue   == "Cannot use \"undefined\" as a Firestore value"
NoDocument       == "No document to update"
Ok               == ""

NoScript == <<>>

\* getScript answering "not found" for a script of another user
getScriptHiding(st, scriptId, userId, t) ==
  IF ~Exists(st, scriptId)
  THEN [err |-> NotFound, script |-> NoScript]
  ELSE LET script == fromFirestore(scriptId, st[scriptId], t)
       IN  IF userId # "" /\ script.created_by # userId
           THEN [err |-> NotFound, script |-> NoScript]
           ELSE [err |-> Ok, script |-> script]

\* getScript(scriptId, userId = null): userId is checked only when truthy
getScript(st, scriptId, userId, t) ==
  IF ~Exists(st, scriptId)
  THEN [err |-> NotFound, script |-> NoScript]
  ELSE LET script == fromFirestore(scriptId, st[scriptId], t)
       IN  IF userId # "" /\ script.created_by # userId
           THEN [err |-> AccessDenied, script |-> NoScript]
           ELSE [err |-> Ok, script |-> script]

\* the message with errors[0] in place of the joined list
FirstErrorMessage(errors) == <<"Validation failed: ", errors[1]>>

\* `Validation failed: ${validation.errors.join(', ')}`
ValidationMessage(errors) ==
  <<"Validation failed: ">> \o
  Join([i \in 1..Len(errors) |-> <<errors[i]>>], <<", ">>)

\* createScript up to the write: the script built from the data, checked,
\* with its variables extracted
PrepareCreate(scriptData, userId, t) ==
  LET script == NewScript(Spread(scriptData,
                                 [created_by |-> userId,
                                  created_at |-> t,
                                  updated_at |-> t]), t)
      validation == validate(script)
  IN  IF ~validation.isValid
      THEN [err |-> ValidationFailed, errors |-> validation.errors,
            msg |-> ValidationMessage(validation.errors), script |-> NoScript]
      ELSE [err |-> Ok, errors |-> <<>>, msg |-> <<>>,
            script |-> Spread(script, [variables |-> extractVariables(script)])]

\* updateScript refusing to take a script out of the archive
PrepareUpdateGuarded(existingScript, scriptId, updateData, t) ==
  LET updatedScript == NewScript(Spread(Spread(existingScript, updateData),
                                        [id |-> scriptId, updated_at |-> t]), t)
      validation == validate(updatedScript)
  IN  IF existingScript.status = "archived" /\ updatedScript.status # "archived"
      THEN [err |-> ValidationFailed, errors |-> <<BadStatus>>,
            msg |-> ValidationMessage(<<BadStatus>>), script |-> NoScript]
      ELSE IF ~validation.isValid
      THEN [err |-> ValidationFailed, errors |-> validation.errors,
            msg |-> ValidationMessage(validation.errors), script |-> NoScript]
      ELSE [err |-> Ok, errors |-> <<>>, msg |-> <<>>,
            script |-> Spread(updatedScript,
                              [variables |-> extractVariables(updatedScript)])]

\* updateScript writing whatever the merge gives, validate() not consulted
PrepareUpdateUnchecked(existingScript, scriptId, updateData, t) ==
  LET updatedScript == NewScript(Spread(Spread(existingScript, updateData),
                                        [id |-> scriptId, updated_at |-> t]), t)
  IN  [err |-> Ok, errors |-> <<>>, msg |-> <<>>,
       script |-> Spread(updatedScript,
                         [variables |-> extractVariables(updatedScript)])]

\* updateScript without the line that re-extracts the variables
PrepareUpdateKeepVariables(existingScript, scriptId, updateData, t) ==
  LET updatedScript == NewScript(Spread(Spread(existingScript, updateData),
                                        [id |-> scriptId, updated_at |-> t]), t)
      validation == validate(updatedScript)
  IN  IF ~validation.isValid
      THEN [err |-> ValidationFailed, errors |-> validation.errors,
            msg |-> ValidationMessage(validation.errors), script |-> NoScript]
      ELSE [err |-> Ok, errors |-> <<>>, msg |-> <<>>, script |-> updatedScript]

\* updateScript between the read and the write
PrepareUpdate(existingScript, scriptId, updateData, t) ==
  LET updatedScript == NewScript(Spread(Spread(existingScript, updateData),
                                        [id |-> scriptId, updated_at |-> t]), t)
      validation == validate(updatedScript)
  IN  IF ~validation.isValid
      THEN [err |-> ValidationFailed, errors |-> validation.errors,
            msg |-> ValidationMessage(validation.errors), script |-> NoScript]
      ELSE [err |-> Ok, errors |-> <<>>, msg |-> <<>>,
            script |-> Spread(updatedScript,
                              [variables |-> extractVariables(updatedScript)])]

CopySuffix == <<" ", "(", "C", "o", "p", "y", ")">>

\* duplicateScript between the read and createScript; newName = <<>> is
\* the null default
PrepareDuplicate(originalScript, newName, t) ==
  NewScript(Spread(originalScript,
                   [id |-> NoId,
                    name |-> IF newName # <<>> THEN newName
                             ELSE originalScript.name \o CopySuffix,
                    created_at |-> t,
                    updated_at |-> t,
                    performance_metrics |-> BaselineMetrics]), t)

\* updateMetrics: the update it sends, 'performance_metrics.<key>' paths
\* applied to the stored map; serverTimestamp() = t.  The forEach assigns
\* every key of metrics after 'performance_metrics.last_used' was set.
MetricsUpdate(data, metrics, t) ==
  [performance_metrics |->
     Spread(Spread(IF Has(data, "performance_metrics")
                   THEN data.performance_metrics ELSE <<>>,
                   [last_used |-> t]),
            metrics),
   updated_at |-> t]

----------------------------------------------------------------------------
(* Queries of the collection *)

IdIndex(id) == Min({i \in 1..Len(DocIds) : DocIds[i] = id})

\* where(field, '==', value) for each filter that is set
Matches(data, userId, filters, fields) ==
  /\ data.created_by = userId
  /\ \A f \in fields : (Has(filters, f) /\ filters[f] # "") => data[f] = filters[f]

\* Firestore's order: the orderBy field, then the document id, both in the
\* direction asked for
Before(st, a, b, field, direction) ==
  LET x == st[a][field]
      y == st[b][field]
  IN  IF direction = "desc"
      THEN x > y \/ (x = y /\ IdIndex(a) > IdIndex(b))
      ELSE x < y \/ (x = y /\ IdIndex(a) < IdIndex(b))

RECURSIVE Ordered(_, _, _, _)
Ordered(st, ids, field, direction) ==
  IF ids = {} THEN <<>>
  ELSE LET first == CHOOSE a \in ids :
                      \A b \in ids \ {a} : Before(st, a, b, field, direction)
       IN  <<first>> \o Ordered(st, ids \ {first}, field, direction)

Take(s, n) == SubSeq(s, 1, IF n < Len(s) THEN n ELSE Len(s))

\* filters.limit || 1000
DefaultPage == 1000

\* getScripts(userId, filters)
getScripts(st, userId, filters, t) ==
  LET orderBy   == IF Has(filters, "orderBy") THEN filters.orderBy ELSE "updated_at"
      direction == IF Has(filters, "orderDirection")
                   THEN filters.orderDirection ELSE "desc"
      matching  == {id \in DOMAIN st :
                      Matches(st[id], userId, filters,
                              {"type", "status", "industry", "objective"})}
      cursor    == IF Has(filters, "startAfter") /\ Exists(st, filters.startAfter)
                   THEN {filters.startAfter} ELSE {}
      after     == {id \in matching :
                      \A c \in cursor :
                        id # c /\ Before(st, c, id, orderBy, direction)}
      sorted    == Ordered(st, after, orderBy, direction)
      page      == IF Has(filters, "limit") /\ filters.limit # 0
                   THEN Take(sorted, filters.limit) ELSE sorted
      scripts   == [i \in 1..Len(page) |-> fromFirestore(page[i], st[page[i]], t)]
  IN  [scripts |-> scripts,
       total   |-> Len(scripts),
       hasMore |-> Len(page) = (IF Has(filters, "limit") /\ filters.limit # 0
                                THEN filters.limit ELSE DefaultPage)]

\* getScriptVersions with the lowest version first
getScriptVersionsAscending(st, parentScriptId, userId, t) ==
  LET matching == {id \in DOMAIN st :
                     /\ st[id].parent_script_id = parentScriptId
                     /\ st[id].created_by = userId}
      sorted   == Ordered(st, matching, "version", "asc")
  IN  [i \in 1..Len(sorted) |-> fromFirestore(sorted[i], st[sorted[i]], t)]

\* getScriptVersions(parentScriptId, userId)
getScriptVersions(st, parentScriptId, userId, t) ==
  LET matching == {id \in DOMAIN st :
                     /\ st[id].parent_script_id = parentScriptId
                     /\ st[id].created_by = userId}
      sorted   == Ordered(st, matching, "version", "desc")
  IN  [i \in 1..Len(sorted) |-> fromFirestore(sorted[i], st[sorted[i]], t)]

\* toLowerCase(), on the letters the model's texts use
Lower(c) ==
  CASE c = "A" -> "a" [] c = "B" -> "b" [] c = "C" -> "c" [] c = "X" -> "x"
    [] OTHER -> c

LowerText(s) == [i \in 1..Len(s) |-> Lower(s[i])]

\* text.includes(term)
Includes(text, term) ==
  \E i \in 0..(Len(text) - Len(term)) : SubSeq(text, i + 1, i + Len(term)) = term

\* searchScripts(userId, searchTerm, filters): documents come back in the
\* order of their ids, the order of a query without orderBy
searchScripts(st, userId, searchTerm, filters, t) ==
  LET matching == {id \in DOMAIN st :
                     Matches(st[id], userId, filters, {"type", "status"})}
      found    == {id \in matching :
                     LET script == fromFirestore(id, st[id], t)
                         searchableText ==
                           LowerText(script.name \o <<" ">> \o script.description
                                     \o <<" ">> \o Join(script.tags, <<" ">>))
                     IN  Includes(searchableText, LowerText(searchTerm))}
      sorted   == Ordered([id \in found |-> [n |-> 0]], found, "n", "asc")
  IN  [i \in 1..Len(sorted) |-> fromFirestore(sorted[i], st[sorted[i]], t)]

----------------------------------------------------------------------------
(* Bounds and the inputs the calls are tried with *)

MaxScripts == 2    \* documents ever added
MaxClock   == 3    \* writes, each at its own instant
MaxPending == 1    \* calls in flight between their read and their write

Ids == {DocIds[i] : i \in 1..(MaxScripts + 1)}

Users    == {"u1", "u2"}
NoUser   == ""
UserArgs == Users \cup {NoUser}

NameA    == <<"A">>
NameB    == <<"B">>
LongName == [i \in 1..(MaxNameLength + 1) |-> "X"]

\* content.opening = "Hi {firstName} from {company}", the rest empty
HiContent ==
  Obj(<<"opening", "main_points", "objection_handling", "closing",
        "fallback_responses">>,
      <<Str(<<"Hi ", "{", "firstName", "}", " from ", "{", "company", "}">>),
        Arr(<<>>), Obj(<<>>, <<>>), Str(<<>>), Arr(<<>>)>>)

PointsContent ==
  Obj(<<"opening", "main_points">>,
      <<Str(<<"Dear ", "{", "firstName", "}">>),
        Arr(<<Str(<<"About ", "{", "topic", "}">>), Num(5)>>)>>)

UsedMetrics ==
  [total_uses |-> 9, success_rate |-> 1, average_duration |-> 0,
   conversion_rate |-> 0, last_used |-> NoTime]

RawCall    == [name |-> NameA, type |-> "call", content |-> HiContent,
               variables |-> <<"forged">>, tags |-> <<NameB>>]
RawForged  == [name |-> NameB, type |-> "email", created_by |-> "u2",
               version |-> 5, parent_script_id |-> "d1", id |-> "d2",
               performance_metrics |-> UsedMetrics]
RawInvalid == [name |-> <<>>, type |-> "invalid_type", tone |-> "invalid_tone"]
RawNoPoints == [name |-> <<" ">>, type |-> "sms"]

Raws == {RawCall, RawForged, RawInvalid, RawNoPoints}

PatchStatus  == [status |-> "active"]
PatchVersion == [version |-> 3]
PatchContent == [content |-> PointsContent, variables |-> <<"forged">>]
PatchInvalid == [type |-> "sms", status |-> "deleted", name |-> LongName,
                 content |-> HiContent]

PatchMetrics == [performance_metrics |-> UsedMetrics]

\* a patch that names another owner
PatchOwner == [created_by |-> "u2"]

Patches == {PatchStatus, PatchVersion, PatchContent, PatchInvalid, PatchMetrics}

NewNames == {<<>>, LongName}

\* {} and {conversion_rate: 1, last_used: null} beside an ordinary patch
NoMetrics == <<>>

MetricsPatches == {[total_uses |-> 5, success_rate |-> 1],
                   [conversion_rate |-> 1, last_used |-> NoTime],
                   NoMetrics}

ValueMaps == {[firstName |-> Str(<<"Ann">>)]}

ListFilters == {[orderBy |-> "updated_at"],
                [type |-> "call", limit |-> 1],
                [status |-> "draft", startAfter |-> "d1"]}

SearchTerms == {<<"a">>}

NoFilters == [orderBy |-> "updated_at"]

----------------------------------------------------------------------------
(* ScriptService: the calls.  Each gives its outcome: the error thrown or  *)
(* Ok, what it returns, and the collection after it.                       *)

Failure(st, err, errors, msg) ==
  [err |-> err, errors |-> errors, msg |-> msg, script |-> NoScript, store |-> st]

\* createScript(scriptData, userId); newId is the id collection.add assigns
createScript(st, newId, scriptData, userId, t) ==
  LET r == PrepareCreate(scriptData, userId, t)
  IN  IF r.err # Ok THEN Failure(st, r.err, r.errors, r.msg)
      ELSE [err |-> Ok, errors |-> <<>>, msg |-> <<>>,
            script |-> Spread(r.script, [id |-> newId]),
            store |-> AddDoc(st, newId, toFirestore(r.script))]

\* updateScript whose write is refused when the document is no longer the
\* one that was read
updateScriptWriteChecked(st, existingScript, scriptId, updateData, t) ==
  LET r == PrepareUpdate(existingScript, scriptId, updateData, t)
  IN  IF r.err # Ok THEN Failure(st, r.err, r.errors, r.msg)
      ELSE IF ~Exists(st, scriptId) THEN Failure(st, NoDocument, <<>>, <<>>)
      ELSE IF st[scriptId].updated_at # existingScript.updated_at
      THEN Failure(st, "Stale", <<>>, <<>>)
      ELSE [err |-> Ok, errors |-> <<>>, msg |-> <<>>,
            script |-> r.script,
            store |-> UpdateDoc(st, scriptId,
                                Spread(toFirestore(r.script), [updated_at |-> t]))]

\* updateScript writing with set(): a missing document is created
updateScriptWriteUpsert(st, existingScript, scriptId, updateData, t) ==
  LET r == PrepareUpdate(existingScript, scriptId, updateData, t)
  IN  IF r.err # Ok THEN Failure(st, r.err, r.errors, r.msg)
      ELSE [err |-> Ok, errors |-> <<>>, msg |-> <<>>,
            script |-> r.script,
            store |-> AddDoc(st, scriptId,
                             Spread(toFirestore(r.script), [updated_at |-> t]))]

\* updateScript after its getScript: build, validate, update
updateScriptWrite(st, existingScript, scriptId, updateData, t) ==
  LET r == PrepareUpdate(existingScript, scriptId, updateData, t)
  IN  IF r.err # Ok THEN Failure(st, r.err, r.errors, r.msg)
      ELSE IF ~Exists(st, scriptId) THEN Failure(st, NoDocument, <<>>, <<>>)
      ELSE [err |-> Ok, errors |-> <<>>, msg |-> <<>>,
            script |-> r.script,
            store |-> UpdateDoc(st, scriptId,
                                Spread(toFirestore(r.script), [updated_at |-> t]))]

\* updateScript(scriptId, updateData, userId), nothing running between
updateScript(st, scriptId, updateData, userId, t) ==
  LET g == getScript(st, scriptId, userId, t)
  IN  IF g.err # Ok THEN Failure(st, g.err, <<>>, <<>>)
      ELSE updateScriptWrite(st, g.script, scriptId, updateData, t)

\* deleteScript after its getScript
deleteScriptWrite(st, scriptId) ==
  [err |-> Ok, errors |-> <<>>, msg |-> <<>>, script |-> NoScript,
   store |-> DeleteDoc(st, scriptId)]

\* deleteScript(scriptId, userId), nothing running between
deleteScript(st, scriptId, userId, t) ==
  LET g == getScript(st, scriptId, userId, t)
  IN  IF g.err # Ok THEN Failure(st, g.err, <<>>, <<>>)
      ELSE deleteScriptWrite(st, scriptId)

\* duplicateScript after its getScript
duplicateScriptWrite(st, newId, originalScript, userId, newName, t) ==
  createScript(st, newId, PrepareDuplicate(originalScript, newName, t), userId, t)

\* duplicateScript(scriptId, userId, newName), nothing running between
duplicateScript(st, newId, scriptId, userId, newName, t) ==
  LET g == getScript(st, scriptId, userId, t)
  IN  IF g.err # Ok THEN Failure(st, g.err, <<>>, <<>>)
      ELSE duplicateScriptWrite(st, newId, g.script, userId, newName, t)

\* createVersion that also archives the script it was made from
createVersionWriteArchiving(st, newId, originalScript, userId, t) ==
  LET o == createScript(st, newId, createVersion(originalScript, t), userId, t)
  IN  IF o.err # Ok \/ ~Exists(st, originalScript.id) THEN o
      ELSE Spread(o, [store |-> UpdateDoc(o.store, originalScript.id,
                                          [status |-> "archived"])])

\* createVersion after its getScript
createVersionWrite(st, newId, originalScript, userId, t) ==
  createScript(st, newId, createVersion(originalScript, t), userId, t)

\* createVersion(scriptId, userId), nothing running between
createVersionCall(st, newId, scriptId, userId, t) ==
  LET g == getScript(st, scriptId, userId, t)
  IN  IF g.err # Ok THEN Failure(st, g.err, <<>>, <<>>)
      ELSE createVersionWrite(st, newId, g.script, userId, t)

\* updateMetrics(scriptId, metrics): one update, no read, no owner.  For
\* metrics = {} the first key is 'performance_metrics.undefined' with the
\* value undefined, which update() refuses before anything is sent.
updateMetricsCall(st, scriptId, metrics, t) ==
  IF DOMAIN metrics = {} THEN Failure(st, UndefinedValue, <<>>, <<>>)
  ELSE IF ~Exists(st, scriptId) THEN Failure(st, NoDocument, <<>>, <<>>)
  ELSE [err |-> Ok, errors |-> <<>>, msg |-> <<>>, script |-> NoScript,
        store |-> UpdateDoc(st, scriptId, MetricsUpdate(st[scriptId], metrics, t))]

\* PATCH /:id/metrics as the user of the user-id header: the handler passes
\* the id and the body on and leaves req.userId unread
metricsRoute(st, scriptId, userId, metrics, t) ==
  updateMetricsCall(st, scriptId, metrics, t)

\* the status the routes GET /:id and POST /:id/variables answer with
RouteStatus(err) ==
  IF err = Ok THEN 200
  ELSE IF err = NotFound THEN 404
  ELSE IF err = AccessDenied THEN 403
  ELSE 500

\* GET /:id
getScriptRoute(st, scriptId, userId, t) ==
  LET g == getScript(st, scriptId, userId, t)
  IN  [http |-> RouteStatus(g.err), error |-> g.err, data |-> g.script]

\* POST /:id/variables: getScript, then script.replaceVariables(req.body);
\* nothing is written
variablesRoute(st, scriptId, userId, values, t) ==
  LET g == getScript(st, scriptId, userId, t)
      processedScript == replaceVariables(g.script, values)
      script == replaceVariablesThis(g.script, values)
  IN  IF g.err # Ok
      THEN [http |-> RouteStatus(g.err), error |-> g.err, data |-> <<>>, store |-> st]
      ELSE [http |-> RouteStatus(Ok), error |-> Ok,
            data |-> [original |-> script.content,
                      processed |-> processedScript.content,
                      variables_used |-> script.variables],
            store |-> st]

----------------------------------------------------------------------------
(* The collection under calls that interleave at their awaits *)

NoArg == [name |-> <<>>]

Done(op, id, userId, t) == [op |-> op, id |-> id, userId |-> userId, at |-> t]

InFlight(op, id, userId, arg, script) ==
  [op |-> op, id |-> id, userId |-> userId, arg |-> arg, script |-> script]

Init ==
  /\ store = <<>>
  /\ nextId = 1
  /\ now = 1
  /\ pending = {}
  /\ entity = NewScript(<<>>, 1)
  /\ last = Done("init", NoId, NoUser, 0)

CanWrite == now <= MaxClock

CanAdd == nextId <= MaxScripts

\* a call that throws leaves everything as it was
Apply(o, op, id, userId) ==
  IF o.err # Ok
  THEN UNCHANGED <<store, now, last>>
  ELSE /\ store' = o.store
       /\ now' = now + 1
       /\ last' = Done(op, id, userId, now)

Added(o) == IF o.err = Ok THEN 1 ELSE 0

CreateScript(scriptData, userId) ==
  /\ CanWrite /\ CanAdd
  /\ LET o == createScript(store, DocIds[nextId], scriptData, userId, now)
     IN  /\ Apply(o, "createScript", DocIds[nextId], userId)
         /\ nextId' = nextId + Added(o)
  /\ UNCHANGED <<pending, entity>>

\* the await of getScript in a call that goes on to write
Read(op, scriptId, userId, arg) ==
  /\ Cardinality(pending) < MaxPending
  /\ LET g == getScript(store, scriptId, userId, now)
     IN  /\ g.err = Ok
         /\ pending' = pending \cup {InFlight(op, scriptId, userId, arg, g.script)}
  /\ UNCHANGED <<store, nextId, now, entity, last>>

UpdateScriptRead(scriptId, updateData, userId) ==
  Read("updateScript", scriptId, userId, updateData)

UpdateScriptWrite(p) ==
  /\ p.op = "updateScript"
  /\ CanWrite
  /\ pending' = pending \ {p}
  /\ Apply(updateScriptWrite(store, p.script, p.id, p.arg, now),
           p.op, p.id, p.userId)
  /\ UNCHANGED <<nextId, entity>>

DeleteScriptRead(scriptId, userId) ==
  Read("deleteScript", scriptId, userId, NoArg)

DeleteScriptWrite(p) ==
  /\ p.op = "deleteScript"
  /\ CanWrite
  /\ pending' = pending \ {p}
  /\ Apply(deleteScriptWrite(store, p.id), p.op, p.id, p.userId)
  /\ UNCHANGED <<nextId, entity>>

DuplicateScriptRead(scriptId, userId, newName) ==
  Read("duplicateScript", scriptId, userId, [name |-> newName])

DuplicateScriptWrite(p) ==
  /\ p.op = "duplicateScript"
  /\ CanWrite /\ CanAdd
  /\ pending' = pending \ {p}
  /\ LET o == duplicateScriptWrite(store, DocIds[nextId], p.script, p.userId,
                                   p.arg.name, now)
     IN  /\ Apply(o, p.op, DocIds[nextId], p.userId)
         /\ nextId' = nextId + Added(o)
  /\ UNCHANGED entity

CreateVersionRead(scriptId, userId) ==
  Read("createVersion", scriptId, userId, NoArg)

CreateVersionWrite(p) ==
  /\ p.op = "createVersion"
  /\ CanWrite /\ CanAdd
  /\ pending' = pending \ {p}
  /\ LET o == createVersionWrite(store, DocIds[nextId], p.script, p.userId, now)
     IN  /\ Apply(o, p.op, DocIds[nextId], p.userId)
         /\ nextId' = nextId + Added(o)
  /\ UNCHANGED entity

UpdateMetrics(scriptId, metrics) ==
  /\ CanWrite
  /\ Apply(updateMetricsCall(store, scriptId, metrics, now),
           "updateMetrics", scriptId, NoUser)
  /\ UNCHANGED <<nextId, pending, entity>>

Next ==
  \/ \E d \in Raws, u \in UserArgs : CreateScript(d, u)
  \/ \E i \in Ids, d \in Patches, u \in UserArgs : UpdateScriptRead(i, d, u)
  \/ \E p \in pending : UpdateScriptWrite(p)
  \/ \E i \in Ids, u \in UserArgs : DeleteScriptRead(i, u)
  \/ \E p \in pending : DeleteScriptWrite(p)
  \/ \E i \in Ids, u \in UserArgs, n \in NewNames : DuplicateScriptRead(i, u, n)
  \/ \E p \in pending : DuplicateScriptWrite(p)
  \/ \E i \in Ids, u \in UserArgs : CreateVersionRead(i, u)
  \/ \E p \in pending : CreateVersionWrite(p)
  \/ \E i \in Ids, m \in MetricsPatches : UpdateMetrics(i, m)

Spec == Init /\ [][Next]_vars

----------------------------------------------------------------------------
(* The Script object alone, as the model tests use it: a script is built   *)
(* and its methods are called, with no collection behind it.               *)

MaxTextLen == 3    \* chunks in a generated content string

Alphabet == {"{", "}", "a", "b"}

Texts == UNION {[1..k -> Alphabet] : k \in 0..MaxTextLen}

EntityContents ==
  {Obj(<<"opening">>, <<Str(s)>>) : s \in Texts}
  \cup {HiContent, PointsContent, EmptyContent, Obj(<<>>, <<>>)}

EntityValueMaps ==
  {[unused |-> Str(<<"x">>)],
   [a |-> Str(<<"Ann">>)],
   [a |-> Str(<<>>)],
   [a |-> Str(<<"x">>), b |-> Str(<<"{", "a", "}">>)],
   [a |-> Num(0), b |-> Num(5)],
   [firstName |-> Str(<<"Ann">>), company |-> Str(<<"Acme">>),
    topic |-> Str(<<"tea">>)]}

\* a value map with a value for every name extractVariables reports and for
\* every placeholder name of the contents
CompleteValues(s) ==
  [n \in Range(extractVariables(s)) \cup {"a", "b", "firstName", "company", "topic"}
     |-> Str(<<"x">>)]

Result(op, values, out) == [op |-> op, values |-> values, out |-> out]

NoValues == [unused |-> Str(<<"x">>)]

\* Script.getTemplate: the templates of the catalogue, a text cut at its
\* braces and line ends
CallLeadGeneration ==
  Obj(<<"opening", "main_points", "objection_handling", "closing">>,
      <<Str(<<"Hi ", "{", "firstName", "}", ", this is ", "{", "agentName", "}", " from ", "{", "companyName", "}", ". I hope I'm not catching you at a bad time?">>),
        Arr(<<Str(<<"I'm reaching out because we help companies like ", "{", "companyName", "}", " ", "{", "value_proposition", "}">>),
              Str(<<"I'd love to share how we've helped similar businesses ", "{", "specific_benefit", "}">>),
              Str(<<"Would you be open to a brief 15-minute conversation to explore this?">>)>>),
        Obj(<<"not_interested", "too_busy", "already_have_solution">>,
            <<Str(<<"I understand, ", "{", "firstName", "}", ". Many of our best clients said the same thing initially. What if I could show you ", "{", "specific_result", "}", " in just 10 minutes?">>),
              Str(<<"I completely understand you're busy. That's exactly why this could be valuable - it's designed to ", "{", "time_saving_benefit", "}", ". When would be a better time?">>),
              Str(<<"That's great that you have something in place. I'm curious, how well is it working for ", "{", "specific_pain_point", "}", "?">>)>>),
        Str(<<"Perfect! I'll send you a calendar link right after this call. Looking forward to our conversation, ", "{", "firstName", "}", ".">>)>>)

CallAppointmentSetting ==
  Obj(<<"opening", "main_points", "objection_handling", "closing">>,
      <<Str(<<"Hi ", "{", "firstName", "}", ", this is ", "{", "agentName", "}", " calling about your interest in ", "{", "service", "}", ".">>),
        Arr(<<Str(<<"I wanted to follow up on your inquiry and see if you had any questions">>),
              Str(<<"Based on what you shared, I think we could really help with ", "{", "specific_need", "}">>),
              Str(<<"I'd like to schedule a time for you to speak with one of our specialists">>)>>),
        Obj(<<"need_to_think", "need_spouse_approval">>,
            <<Str(<<"Of course, this is an important decision. What specific concerns do you have that I might be able to address?">>),
              Str(<<"That makes perfect sense. Would it be helpful if your spouse joined the call so they can hear the details too?">>)>>),
        Str(<<"Great! Let me get you scheduled. What works better for you, mornings or afternoons?">>)>>)

SmsLeadGeneration ==
  Obj(<<"main_points">>,
      <<Arr(<<Str(<<"Hi ", "{", "firstName", "}", "! ", "{", "agentName", "}", " from ", "{", "companyName", "}", ". Saw your business and thought you might be interested in ", "{", "value_proposition", "}", ".">>),
              Str(<<"We've helped similar companies ", "{", "specific_benefit", "}", ". Worth a quick chat?">>),
              Str(<<"Reply YES for more info or STOP to opt out.">>)>>)>>)

SmsFollowUp ==
  Obj(<<"main_points">>,
      <<Arr(<<Str(<<"Hi ", "{", "firstName", "}", ", following up on our conversation about ", "{", "topic", "}", ".">>),
              Str(<<"Did you have a chance to ", "{", "specific_action", "}", "?">>),
              Str(<<"Happy to answer any questions. Reply or call ", "{", "phone_number", "}", ".">>)>>)>>)

EmailLeadGeneration ==
  Obj(<<"opening", "main_points", "closing">>,
      <<Str(<<"Hi ", "{", "firstName", "}", ",">>),
        Arr(<<Str(<<"I hope this email finds you well. I'm reaching out because ", "{", "reason_for_contact", "}", ".">>),
              Str(<<"We specialize in helping companies like ", "{", "companyName", "}", " ", "{", "value_proposition", "}", ".">>),
              Str(<<"I'd love to share how we've helped ", "{", "similar_company", "}", " achieve ", "{", "specific_result", "}", ".">>)>>),
        Str(<<"Would you be open to a brief call to discuss how this might benefit ", "{", "companyName", "}", "?", "\n", "\n", "Best regards,", "\n", "{", "agentName", "}">>)>>)

\* the (type, objective) pairs the catalogue has a template for
Catalogue ==
  {<<"call", "lead_generation">>, <<"call", "appointment_setting">>,
   <<"sms", "lead_generation">>, <<"sms", "follow_up">>,
   <<"email", "lead_generation">>}

\* templates[type]?.[objective] || null
getTemplate(type, objective) ==
  CASE type = "call"  /\ objective = "lead_generation"     -> CallLeadGeneration
    [] type = "call"  /\ objective = "appointment_setting" -> CallAppointmentSetting
    [] type = "sms"   /\ objective = "lead_generation"     -> SmsLeadGeneration
    [] type = "sms"   /\ objective = "follow_up"           -> SmsFollowUp
    [] type = "email" /\ objective = "lead_generation"     -> EmailLeadGeneration
    [] OTHER -> Null

\* new Script({ name, type, objective, content: Script.getTemplate(type, objective) })
TemplateRaws ==
  {[name |-> NameA, type |-> c[1], objective |-> c[2],
    content |-> getTemplate(c[1], c[2])] : c \in Catalogue}

\* data for scripts that break no rule, one rule, several rules
EntityRaws ==
  Raws \cup
  {PatchInvalid,
   [name |-> [i \in 1..MaxNameLength |-> "X"]],
   [name |-> LongName, type |-> "fax", tone |-> "rude", status |-> "deleted"],
   [name |-> NameA, type |-> "sms", content |-> PointsContent],
   [name |-> <<" ", "\t">>, type |-> "email", status |-> "archived"],
   [name |-> NameA, type |-> "sms", content |-> Obj(<<"opening">>, <<Str(<<"a">>)>>)],
   [name |-> NameA, type |-> "email", content |-> Obj(<<>>, <<>>)],
   [name |-> NameA, type |-> "email", content |-> PointsContent]}

InitEntity ==
  /\ store = <<>>
  /\ nextId = 1
  /\ now = 1
  /\ pending = {}
  /\ entity \in {NewScript([name |-> NameA, content |-> c], 1) : c \in EntityContents}
               \cup {NewScript(d, 1) : d \in EntityRaws \cup TemplateRaws}
  /\ last = Result("new Script", NoValues, <<>>)

\* script.extractVariables()
ExtractVariables ==
  /\ last' = Result("extractVariables", NoValues, extractVariables(entity))
  /\ UNCHANGED <<store, nextId, now, pending, entity>>

\* script.replaceVariables(values)
ReplaceVariables(values) ==
  /\ last' = Result("replaceVariables", values, replaceVariables(entity, values))
  /\ entity' = replaceVariablesThis(entity, values)
  /\ UNCHANGED <<store, nextId, now, pending>>

\* script.validate()
Validate ==
  /\ last' = Result("validate", NoValues, validate(entity))
  /\ UNCHANGED <<store, nextId, now, pending, entity>>

NextEntity ==
  \/ ExtractVariables
  \/ \E v \in EntityValueMaps \cup {CompleteValues(entity)} : ReplaceVariables(v)
  \/ Validate

EntitySpec == InitEntity /\ [][NextEntity]_vars

----------------------------------------------------------------------------
(* updateScript calls racing on one document: each reads at its await of   *)
(* getScript and writes later, with nothing to order them.                 *)

MaxRacing == 2    \* updateScript calls between their read and their write

PatchArchived == [status |-> "archived"]
PatchDraft    == [status |-> "draft"]

RacePatches == {PatchStatus, PatchArchived, PatchDraft, PatchContent, PatchInvalid}

\* what a write did: the call, the script it had read, the document it
\* replaced
Wrote(p, before, t) ==
  [op |-> p.op, id |-> p.id, userId |-> p.userId, at |-> t,
   arg |-> p.arg, read |-> p.script, before |-> before]

\* one script has been created
InitRace ==
  /\ store \in {createScript(<<>>, DocIds[1], d, u, 1).store :
                  d \in {RawCall}, u \in Users}
  /\ nextId = 2
  /\ now = 2
  /\ pending = {}
  /\ entity = NewScript(<<>>, 1)
  /\ last = Done("createScript", DocIds[1], NoUser, 1)

RaceRead(scriptId, updateData, userId) ==
  /\ Cardinality(pending) < MaxRacing
  /\ LET g == getScript(store, scriptId, userId, now)
     IN  /\ g.err = Ok
         /\ pending' = pending \cup
                          {InFlight("updateScript", scriptId, userId, updateData,
                                    g.script)}
  /\ UNCHANGED <<store, nextId, now, entity, last>>

RaceWrite(p) ==
  /\ p.op = "updateScript"
  /\ CanWrite
  /\ pending' = pending \ {p}
  /\ LET o == updateScriptWrite(store, p.script, p.id, p.arg, now)
     IN  IF o.err # Ok
         THEN UNCHANGED <<store, now, last>>
         ELSE /\ store' = o.store
              /\ now' = now + 1
              /\ last' = Wrote(p, store[p.id], now)
  /\ UNCHANGED <<nextId, entity>>

\* deleteScript at its await of getScript
RaceDeleteRead(scriptId, userId) ==
  /\ Cardinality(pending) < MaxRacing
  /\ LET g == getScript(store, scriptId, userId, now)
     IN  /\ g.err = Ok
         /\ pending' = pending \cup
                          {InFlight("deleteScript", scriptId, userId, NoArg,
                                    g.script)}
  /\ UNCHANGED <<store, nextId, now, entity, last>>

RaceDeleteWrite(p) ==
  /\ p.op = "deleteScript"
  /\ CanWrite
  /\ pending' = pending \ {p}
  /\ Apply(deleteScriptWrite(store, p.id), p.op, p.id, p.userId)
  /\ UNCHANGED <<nextId, entity>>

NextRace ==
  \/ \E i \in Ids, d \in RacePatches, u \in Users : RaceRead(i, d, u)
  \/ \E p \in pending : RaceWrite(p)
  \/ \E i \in Ids, u \in Users : RaceDeleteRead(i, u)
  \/ \E p \in pending : RaceDeleteWrite(p)

RaceSpec == InitRace /\ [][NextRace]_vars

----------------------------------------------------------------------------
(* The claims *)

\* the script getScript builds from the stored document
Stored(id) == fromFirestore(id, store[id], now)

ScriptsOf(list) == {list[i] : i \in 1..Len(list)}

\* C1: after any sequence and interleaving of createScript, updateScript,
\* duplicateScript, createVersion, updateMetrics and deleteScript, every
\* document of the collection passes validate().
C1_StoredScriptsValid ==
  \A id \in DOMAIN store : validate(Stored(id)).isValid

\* C1 witness: a document that went through createScript, updateScript and
\* updateMetrics
C1_Witness ==
  /\ last.op = "updateMetrics"
  /\ store[last.id].status = "active"
  /\ store[last.id].performance_metrics.total_uses = 5

\* what C2 asks of the four writing calls for user u on document id
DeniedEverywhere(id, u) ==
  /\ \A d \in Patches :
       LET o == updateScript(store, id, d, u, now)
       IN  o.err = AccessDenied /\ o.store = store
  /\ LET o == deleteScript(store, id, u, now)
     IN  o.err = AccessDenied /\ o.store = store
  /\ \A n \in NewNames :
       LET o == duplicateScript(store, DocIds[nextId], id, u, n, now)
       IN  o.err = AccessDenied /\ o.store = store
  /\ LET o == createVersionCall(store, DocIds[nextId], id, u, now)
     IN  o.err = AccessDenied /\ o.store = store

\* what C2 asks of the listing calls
ListsOnlyOwn ==
  \A u \in UserArgs :
    /\ \A f \in ListFilters :
         \A s \in ScriptsOf(getScripts(store, u, f, now).scripts) : s.created_by = u
    /\ \A w \in SearchTerms :
         \A s \in ScriptsOf(searchScripts(store, u, w, NoFilters, now)) :
           s.created_by = u
    /\ \A i \in Ids :
         \A s \in ScriptsOf(getScriptVersions(store, i, u, now)) : s.created_by = u

C3_GetScript ==
  \A id \in Ids : \A u \in UserArgs :
    LET g == getScript(store, id, u, now)
        r == getScriptRoute(store, id, u, now)
    IN  IF id \notin DOMAIN store
        THEN g.err = NotFound /\ g.script = NoScript /\ r.http = 404
        ELSE IF u # NoUser /\ u # store[id].created_by
        THEN g.err = AccessDenied /\ g.script = NoScript /\ r.http = 403
        ELSE /\ g.err = Ok
             /\ g.script.id = id
             /\ toFirestore(g.script) = store[id]
             /\ r.http = 200 /\ r.data = g.script

\* C3 witness: all three cases at once
C3_Witness ==
  \E a \in DOMAIN store, b \in Ids \ DOMAIN store :
    /\ store[a].created_by = "u1"
    /\ getScript(store, a, "u2", now).err = AccessDenied
    /\ getScript(store, a, "u1", now).err = Ok
    /\ getScript(store, b, "u1", now).err = NotFound

\* the message names every error, joined by ", "
CarriesAll(msg, errors) ==
  /\ Len(msg) = 2 * Len(errors)
  /\ msg[1] = "Validation failed: "
  /\ \A i \in 1..Len(errors) : msg[2 * i] = errors[i]
  /\ \A i \in 1..(Len(errors) - 1) : msg[2 * i + 1] = ", "

\* C4: when the data given to createScript, or the patch merged over the
\* stored script in updateScript, fails validate(), the call fails with a
\* validation error whose message carries every error, and the collection
\* is as it was.
C4_InvalidRejected ==
  /\ \A d \in Raws : \A u \in UserArgs :
       LET v == validate(NewScript(Spread(d, [created_by |-> u]), now))
           o == createScript(store, DocIds[nextId], d, u, now)
       IN  ~v.isValid =>
             /\ o.err = ValidationFailed
             /\ CarriesAll(o.msg, v.errors)
             /\ o.store = store
  /\ \A id \in DOMAIN store : \A d \in Patches :
       LET u == store[id].created_by
           v == validate(NewScript(Spread(Stored(id), d), now))
           o == updateScript(store, id, d, u, now)
       IN  ~v.isValid =>
             /\ o.err = ValidationFailed
             /\ CarriesAll(o.msg, v.errors)
             /\ o.store = store

\* C4 witness: a stored script whose update with the invalid patch is
\* rejected with several errors
C4_Witness ==
  \E id \in DOMAIN store :
    LET o == updateScript(store, id, PatchInvalid, store[id].created_by, now)
    IN  o.err = ValidationFailed /\ Len(o.errors) > 1

\* C5: every stored script's variables are extractVariables of its stored
\* content, whatever variables the client sent in the data or in a patch.
C5_VariablesDerived ==
  \A id \in DOMAIN store : store[id].variables = extractVariables(Stored(id))

\* C5 witness: an update whose patch carried variables of its own
C5_Witness ==
  /\ last.op = "updateScript"
  /\ store[last.id].content = PointsContent
  /\ store[last.id].variables # <<"forged">>

\* the strings of a content, in the order they are written
RECURSIVE Leaves(_)
Leaves(x) ==
  CASE x.t = "str" -> <<x.v>>
    [] x.t \in {"arr", "obj"} -> Concat([i \in 1..Len(x.v) |-> Leaves(x.v[i])])
    [] OTHER -> <<>>

\* the names of the {token} placeholders of one string
TokenNames(str) ==
  LET ms == RegexMatches(str, 1)
  IN  [i \in 1..Len(ms) |-> Group1(str, ms[i])]

\* the names of the placeholders of a content, each once, in the order of
\* first occurrence
PlaceholderNames(content) ==
  LET leaves == Leaves(content)
  IN  Unique(Concat([i \in 1..Len(leaves) |-> TokenNames(leaves[i])]))

\* C6: extractVariables returns exactly the names of the {token}
\* placeholders of the content, each once, in first-occurrence order; for
\* content.opening = "Hi {firstName} from {company}" (the other four fields
\* empty) that is ["firstName", "company"].
C6_ExtractIsPlaceholders ==
  last.op = "extractVariables" =>
    /\ last.out = PlaceholderNames(entity.content)
    /\ entity.content = HiContent => last.out = <<"firstName", "company">>

\* the substitution C7 describes: a token whose name is a key of the map
\* gives way to the value, any other token stays
RECURSIVE SubstituteFrom(_, _, _)
SubstituteFrom(str, values, from) ==
  LET starts == {p \in from..Len(str) : MatchAt(str, p)}
  IN  IF starts = {} THEN SubSeq(str, from, Len(str))
      ELSE LET p    == Min(starts)
               e    == MatchEnd(str, p)
               name == Flat(SubSeq(str, p + 1, e - 1))
               repl == IF name \in DOMAIN values
                       THEN ToText(values[name]) ELSE SubSeq(str, p, e)
           IN  SubSeq(str, from, p - 1) \o repl
               \o SubstituteFrom(str, values, e + 1)

\* two contents of the same shape with the same text in every string
RECURSIVE SameText(_, _)
SameText(x, y) ==
  /\ x.t = y.t
  /\ x.k = y.k
  /\ CASE x.t = "str" -> Flat(x.v) = Flat(y.v)
       [] x.t \in {"arr", "obj"} ->
            /\ Len(x.v) = Len(y.v)
            /\ \A i \in 1..Len(x.v) : SameText(x.v[i], y.v[i])
       [] OTHER -> x.v = y.v

RECURSIVE Substituted(_, _)
Substituted(x, values) ==
  CASE x.t = "str" -> Str(SubstituteFrom(x.v, values, 1))
    [] x.t = "arr" -> Arr([i \in 1..Len(x.v) |-> Substituted(x.v[i], values)])
    [] x.t = "obj" -> Obj(x.k, [i \in 1..Len(x.v) |-> Substituted(x.v[i], values)])
    [] OTHER -> x

\* C7: replaceVariables(valueMap) returns content of the same shape in
\* which every {token} whose name is a key of valueMap is replaced by
\* valueMap[token] and every other {token} is left verbatim.
C7_ReplaceByKey ==
  last.op = "replaceVariables" =>
    SameText(last.out.content, Substituted(entity.content, last.values))

\* C8: for a value map with an entry for every name of
\* extractVariables(C), extractVariables of the substituted content is
\* empty.
C8_FullSubstitutionLeavesNone ==
  (/\ last.op = "replaceVariables"
   /\ Range(extractVariables(entity)) \subseteq DOMAIN last.values)
  => extractVariables(last.out) = <<>>

C10_UpdateKeepsVersion ==
  [][(last'.op = "updateScript" /\ last' # last)
       => store'[last'.id].version = store[last'.id].version]_vars

\* C11: a successful updateScript leaves the stored performance_metrics as
\* they were, whatever the patch holds, a performance_metrics field
\* included.
C11_UpdateKeepsMetrics ==
  \A id \in DOMAIN store : \A d \in Patches : \A u \in UserArgs :
    LET o == updateScript(store, id, d, u, now)
    IN  o.err = Ok =>
          o.store[id].performance_metrics = store[id].performance_metrics

\* C12: every script newly persisted by createScript, duplicateScript or
\* createVersion has the baseline performance_metrics, whatever the data
\* given and whatever the metrics of the source.
C12_NewScriptsBaseline ==
  [][(/\ last' # last
      /\ last'.op \in {"createScript", "duplicateScript", "createVersion"})
       => store'[last'.id].performance_metrics = BaselineMetrics]_vars

\* v is the next version of S
IsVersionOf(v, S) ==
  /\ v.version = S.version + 1
  /\ v.parent_script_id = S.id
  /\ v.content = S.content
  /\ v.settings = S.settings
  /\ v.tags = S.tags

\* the outcome o of a createVersion call that read S: one new document
\* newId, the next version of S, every other document as it was
PersistsVersion(o, S, u, newId) ==
  o.err = Ok =>
    /\ newId \notin DOMAIN store
    /\ DOMAIN o.store = DOMAIN store \cup {newId}
    /\ \A i \in DOMAIN store : o.store[i] = store[i]
    /\ IsVersionOf(o.store[newId], S)
    /\ o.store[newId] =
         toFirestore(Spread(createVersion(S, now), [created_by |-> u]))

C14_DuplicateLineageFree ==
  \A id \in DOMAIN store : \A u \in UserArgs : \A n \in NewNames :
    LET newId == DocIds[nextId]
        o     == duplicateScript(store, newId, id, u, n, now)
    IN  o.err = Ok =>
          /\ newId \notin DOMAIN store
          /\ o.store[newId].parent_script_id = NoId
          /\ o.store[newId].version = 1

\* C15: a script stored by createScript has no parent_script_id, and
\* updateScript leaves the stored parent_script_id as it was.
C15_ParentOnlyFromLineage ==
  [][last' # last =>
       /\ last'.op = "createScript" =>
            store'[last'.id].parent_script_id = NoId
       /\ last'.op = "updateScript" =>
            store'[last'.id].parent_script_id = store[last'.id].parent_script_id]_vars

\* the document a patch merged over the script that was read gives
MergedRecord(read, patch, t) ==
  LET m == Spread(toFirestore(read), patch)
  IN  Spread(m, [variables |-> extractVariables(m), updated_at |-> t])

\* C16: when updateScript calls on one id have all read before any of them
\* writes, none is refused because the document changed since it read, and
\* the document stored after a write is that call's patch merged over the
\* script it had read, whatever was written in between.
C16_LastWriterWins ==
  /\ last.op = "updateScript" =>
       store[last.id] = MergedRecord(last.read, last.arg, last.at)
  /\ \A p \in pending :
       (Exists(store, p.id) /\ validate(Spread(p.script, p.arg)).isValid)
         => updateScriptWrite(store, p.script, p.id, p.arg, now).err = Ok

\* C16 witness: the last write replaced a document that another call had
\* made active after this one had read it as a draft
C16_Witness ==
  /\ last.op = "updateScript"
  /\ last.read.status = "draft"
  /\ last.before.status = "active"
  /\ store[last.id].status = "draft"

\* C17: duplicateScript and createVersion read once and then create at
\* most once: the read changes nothing, a call that fails after its read
\* leaves the collection as it was, and a call that succeeds adds one
\* document and changes no other.
C17_ReadThenOneCreate ==
  [][/\ (pending \subseteq pending' /\ pending' # pending) => store' = store
     /\ (\E p \in pending \ pending' :
           p.op \in {"duplicateScript", "createVersion"})
          => IF last' = last
             THEN store' = store
             ELSE /\ last'.id \notin DOMAIN store
                  /\ DOMAIN store' = DOMAIN store \cup {last'.id}
                  /\ \A i \in DOMAIN store : store'[i] = store[i]]_vars

\* C17 witness: a copy has been stored beside its source
C17_Witness ==
  /\ last.op = "duplicateScript"
  /\ Cardinality(DOMAIN store) = 2
  /\ last.id \in DOMAIN store

\* the ids that were assigned to documents that are gone
Deleted == {DocIds[i] : i \in 1..(nextId - 1)} \ DOMAIN store

\* no call finds a document id in the collection st
Gone(st, id) ==
  \A u \in UserArgs :
    /\ getScript(st, id, u, now).err = NotFound
    /\ deleteScript(st, id, u, now).err = NotFound
    /\ \A f \in ListFilters :
         \A s \in ScriptsOf(getScripts(st, u, f, now).scripts) : s.id # id
    /\ \A w \in SearchTerms \cup {<<>>} :
         \A s \in ScriptsOf(searchScripts(st, u, w, NoFilters, now)) : s.id # id

\* C18: deleteScript by the owner removes the document: afterwards
\* getScript and a second deleteScript on the id fail with not found, no
\* getScripts or searchScripts result holds the id, and every other
\* document is as it was; a deleted id stays gone.
C18_HardDelete ==
  /\ \A id \in Deleted : Gone(store, id)
  /\ \A id \in DOMAIN store :
       LET o == deleteScript(store, id, store[id].created_by, now)
       IN  /\ o.err = Ok
           /\ Gone(o.store, id)
           /\ DOMAIN o.store = DOMAIN store \ {id}
           /\ \A j \in DOMAIN o.store : o.store[j] = store[j]

\* C18 witness: one of two documents has been deleted
C18_Witness ==
  /\ last.op = "deleteScript"
  /\ last.id \in Deleted
  /\ DOMAIN store # {}

\* C19: for every patch of zero or more metric fields, the service's
\* updateMetrics does to the stored document what Script.updateMetrics does
\* to the script: fields of the patch take its values, the other metrics
\* stay, last_used and updated_at are refreshed, nothing else changes.
C19_MetricsAsEntity ==
  \A id \in DOMAIN store : \A m \in MetricsPatches :
    LET o == updateMetricsCall(store, id, m, now)
        e == updateMetrics(Stored(id), m, now)
    IN  /\ o.err = Ok
        /\ o.store[id] = toFirestore(e)
        /\ \A j \in DOMAIN store \ {id} : o.store[j] = store[j]

\* content[key] is a string that is not empty
HasText(content, key) ==
  \E i \in 1..Len(content.k) :
    content.k[i] = key /\ content.v[i].t = "str" /\ content.v[i].v # <<>>

\* content[key] is a list that is not empty
HasItems(content, key) ==
  \E i \in 1..Len(content.k) :
    content.k[i] = key /\ content.v[i].t = "arr" /\ content.v[i].v # <<>>

\* the rules, each under the name of its error
Violates(s, rule) ==
  CASE rule = NameRequired  -> \A i \in 1..Len(s.name) : s.name[i] \in Whitespace
    [] rule = NameTooLong   -> Len(s.name) > 100
    [] rule = BadType       -> s.type \notin {"call", "sms", "email"}
    [] rule = BadTone       ->
         s.tone \notin {"professional", "casual", "friendly", "assertive"}
    [] rule = BadStatus     -> s.status \notin {"draft", "active", "archived"}
    [] rule = OpeningNeeded -> s.type = "call" /\ ~HasText(s.content, "opening")
    [] rule = PointsNeeded  -> s.type = "sms" /\ ~HasItems(s.content, "main_points")

AllRules ==
  {NameRequired, NameTooLong, BadType, BadTone, BadStatus, OpeningNeeded,
   PointsNeeded}

\* C20: validate() reports every violated rule, not only the first: its
\* errors hold the error of a rule exactly when the script violates it, and
\* isValid is true exactly when no rule is violated.
C20_AllErrorsReported ==
  last.op = "validate" =>
    /\ \A r \in AllRules :
         Violates(entity, r) <=> r \in Range(last.out.errors)
    /\ last.out.isValid <=> \A r \in AllRules : ~Violates(entity, r)

\* C20 witness: validate() has reported four violated rules at once
C20_Witness ==
  /\ last.op = "validate"
  /\ Len(last.out.errors) = 4
  /\ ~last.out.isValid

\* how many times error e is in the list
Count(errors, e) == Cardinality({i \in 1..Len(errors) : errors[i] = e})

\* C21: the content rule of validate() goes by the type alone: a call
\* script with an empty opening is invalid with the opening error, an sms
\* script with empty or missing main_points is invalid with exactly one
\* main points error, and an email script gets neither error whatever its
\* content.
C21_ContentRuleByType ==
  last.op = "validate" =>
    LET errors == last.out.errors
    IN  /\ (entity.type = "call" /\ ~HasText(entity.content, "opening"))
             => ~last.out.isValid /\ Count(errors, OpeningNeeded) = 1
        /\ (entity.type = "sms" /\ ~HasItems(entity.content, "main_points"))
             => ~last.out.isValid /\ Count(errors, PointsNeeded) = 1
        /\ entity.type # "call" => Count(errors, OpeningNeeded) = 0
        /\ entity.type # "sms" => Count(errors, PointsNeeded) = 0

\* C21 witness: an sms script whose content has no main_points at all got
\* the one error, and not the one for openings
C21_Witness ==
  /\ last.op = "validate"
  /\ entity.type = "sms"
  /\ Prop(entity.content, "main_points") = Null
  /\ Prop(entity.content, "opening") # Null
  /\ last.out.errors = <<PointsNeeded>>

C23_VersionsOfParent ==
  \A parent \in Ids : \A u \in UserArgs :
    LET r      == getScriptVersions(store, parent, u, now)
        wanted == {id \in DOMAIN store :
                     /\ store[id].parent_script_id = parent
                     /\ store[id].created_by = u}
    IN  /\ {r[i].id : i \in 1..Len(r)} = wanted
        /\ Len(r) = Cardinality(wanted)
        /\ \A i \in 1..Len(r) : r[i] = Stored(r[i].id)
        /\ \A i \in 1..Len(r) : \A j \in 1..Len(r) :
             i < j => r[i].version >= r[j].version

\* C23 witness: two versions under one parent come back, the higher first
C23_Witness ==
  \E parent \in Ids : \E u \in Users :
    LET r == getScriptVersions(store, parent, u, now)
    IN  /\ Len(r) = 2
        /\ r[1].version > r[2].version

\* C24: a script built with the content of a catalogued template has,
\* right after construction, a non-empty variables field that holds the
\* placeholder names of the template.
C24_TemplateSeededVariables ==
  \A c \in Catalogue :
    ( /\ last.op = "new Script"
      /\ entity.content = getTemplate(c[1], c[2]) )
    => /\ entity.variables # <<>>
       /\ Range(entity.variables) = Range(PlaceholderNames(entity.content))

\* C25: a stored script's created_by is the user id passed to the
\* createScript, duplicateScript or createVersion call that stored it, and
\* no updateScript patch changes it.
C25_OwnerFixed ==
  /\ ( /\ last.op \in {"createScript", "duplicateScript", "createVersion"}
       /\ last.id \in DOMAIN store )
     => store[last.id].created_by = last.userId
  /\ \A id \in DOMAIN store : \A d \in Patches \cup {PatchOwner} :
       LET o == updateScript(store, id, d, store[id].created_by, now)
       IN  o.err = Ok => o.store[id].created_by = store[id].created_by

\* C26: no request made as user A changes a script of another user B:
\* after a create, update, delete, duplicate, version or metrics request of
\* A, on any id, every stored script with created_by = B is as before.
C26_OthersUntouched ==
  \A A \in Users : \A id \in DOMAIN store :
    store[id].created_by \in Users \ {A} =>
      LET Same(o) == id \in DOMAIN o.store /\ o.store[id] = store[id]
          newId   == DocIds[nextId]
      IN  /\ \A d \in Raws : Same(createScript(store, newId, d, A, now))
          /\ \A j \in Ids :
               /\ \A d \in Patches : Same(updateScript(store, j, d, A, now))
               /\ Same(deleteScript(store, j, A, now))
               /\ \A n \in NewNames :
                    Same(duplicateScript(store, newId, j, A, n, now))
               /\ Same(createVersionCall(store, newId, j, A, now))
               /\ \A m \in MetricsPatches :
                    Same(metricsRoute(store, j, A, m, now))

\* C27: a metrics update is not lost to a concurrent content update: when
\* an updateScript call whose patch names no metrics writes, the metrics
\* stored at that moment, those an updateMetrics call wrote after the read
\* included, are still the stored metrics after the write.
C27_MetricsSurviveUpdate ==
  [][\A p \in pending :
       ( /\ p.op = "updateScript"
         /\ ~Has(p.arg, "performance_metrics")
         /\ p \notin pending'
         /\ last' # last
         /\ p.id \in DOMAIN store )
       => store'[p.id].performance_metrics = store[p.id].performance_metrics]_vars

\* no two scripts of a store with the same parent have the same version
UniqueVersions(st) ==
  \A a \in DOMAIN st : \A b \in DOMAIN st :
    ( /\ a # b
      /\ st[a].parent_script_id # NoId
      /\ st[a].parent_script_id = st[b].parent_script_id )
    => st[a].version # st[b].version

\* C28: version numbers are unique within a lineage, also when createVersion
\* is called more than once on one source: a createVersion call on a store
\* whose versions are unique leaves a store whose versions are unique.
C28_VersionsUnique ==
  UniqueVersions(store) =>
    \A id \in Ids : \A u \in Users :
      UniqueVersions(createVersionCall(store, DocIds[nextId], id, u, now).store)

\* C29: a deleted script is not brought back: for an id deleteScript has
\* removed, an updateScript call that read the script before the delete and
\* writes now fails, a new updateScript fails with not found, updateMetrics
\* fails, and each leaves the store as it is, the id absent.
C29_NoResurrection ==
  \A id \in Deleted :
    /\ \A p \in pending :
         (p.op = "updateScript" /\ p.id = id) =>
           LET o == updateScriptWrite(store, p.script, p.id, p.arg, now)
           IN  o.err # Ok /\ o.store = store
    /\ \A u \in UserArgs : \A d \in RacePatches :
         LET o == updateScript(store, id, d, u, now)
         IN  o.err = NotFound /\ o.store = store
    /\ \A m \in MetricsPatches :
         LET o == updateMetricsCall(store, id, m, now)
         IN  o.err # Ok /\ o.store = store

\* C29 witness: the script has been deleted while an updateScript call with
\* a valid patch, which read it before, has yet to write
C29_Witness ==
  /\ last.op = "deleteScript"
  /\ last.id \in Deleted
  /\ \E p \in pending :
       /\ p.op = "updateScript"
       /\ p.id = last.id
       /\ PrepareUpdate(p.script, p.id, p.arg, now).err = Ok

\* the scripts of the user that match the filters and come after the page
\* a getScripts call returned, in the order of the call
Further(st, userId, filters, page) ==
  LET orderBy   == IF Has(filters, "orderBy") THEN filters.orderBy ELSE "updated_at"
      direction == IF Has(filters, "orderDirection")
                   THEN filters.orderDirection ELSE "desc"
      cursor    == IF Has(filters, "startAfter") /\ Exists(st, filters.startAfter)
                   THEN {filters.startAfter} ELSE {}
      returned  == {page[i].id : i \in 1..Len(page)}
  IN  {id \in DOMAIN st \ (returned \cup cursor) :
         /\ Matches(st[id], userId, filters,
                    {"type", "status", "industry", "objective"})
         /\ \A b \in returned \cup cursor : Before(st, b, id, orderBy, direction)}

\* C30: getScripts reports hasMore = true exactly when a further script of
\* the owner that matches the filters exists after the returned page, and
\* total is the number of scripts returned.
C30_HasMoreExact ==
  \A u \in Users : \A f \in ListFilters :
    LET r == getScripts(store, u, f, now)
    IN  /\ r.total = Len(r.scripts)
        /\ r.hasMore <=> (Further(store, u, f, r.scripts) # {})

====
